---- MODULE Spec2Model ----
(***************************************************************************)
(* A model of emptty's session orchestration (src/login.go): the login()   *)
(* flow of the foreground goroutine, the handleInterrupt goroutine started *)
(* by registerInterruptHandler, the child processes, and the operating     *)
(* system delivering termination signals.                                  *)
(***************************************************************************)
EXTENDS Integers, Sequences, FiniteSets, TLC

VARIABLES
    pc,          \* position of the foreground goroutine (main -> login)
    exit,        \* "alive", or the way the program ended: "0", "1", "2", "sig"
    authOk,      \* trans.Authenticate returned nil
    sessOpen,    \* trans.OpenSession opened the PAM session
    closeCount,  \* number of trans.CloseSession calls made
    denv,        \* d.env of the selected desktop
    lang,        \* conf.lang
    pamEnvs,     \* what trans.GetEnvList returns: name -> value or Unset
    env,         \* the process environment (os.Setenv / os.Getenv)
    fx,          \* the foreground's file-system and identity side effects, in order
    spawned,     \* the external programs started, each with its credential
    locks,       \* the display indices i for which /tmp/.X<i>-lock exists
    freeDisplay, \* the result of getFreeXDisplay(), -1 before the call
    xauth,       \* the authority file: "absent", "present", "removed"
    xsock,       \* /tmp/.X11-unix/X<display> exists
    polls,       \* the loop counter i of the readiness poll
    proc,        \* cmd.Process of the managed commands: "none", "running", "exited"
    sigint,      \* an os.Interrupt was delivered to the running process
    fgWaited,    \* the commands on which a Wait() of the foreground returned
    hpc,         \* position of the handleInterrupt goroutine
    hcmds,       \* the cmds registerInterruptHandler was given
    hi,          \* index into hcmds of handleInterrupt's range loop
    hSignalled,  \* the commands handleInterrupt delivered an interrupt to
    hWaited,     \* the commands on which handleInterrupt's Wait() returned
    sigSeen,     \* a termination signal arrived after signal.Notify
    conf,        \* the configuration: autologin, defaultUser, dbusLaunch, xinitrcLaunch
    desk,        \* d.exec and d.path of the selected desktop
    xinitrc,     \* ~/.xinitrc exists
    cmd,         \* the exec.Cmd prepareGuiCommand built, NoCmd before
    prompts,     \* the number of prompts of the PAM conversation so far
    conv         \* the last call of the conversation callback, NoConv before

vars == <<pc, exit, authOk, sessOpen, closeCount, denv, lang, pamEnvs, env, fx,
          spawned, locks, freeDisplay, xauth, xsock, polls, proc, sigint,
          fgWaited, hpc, hcmds, hi, hSignalled, hWaited, sigSeen,
          conf, desk, xinitrc, cmd, prompts, conv>>

----------------------------------------------------------------------------
(* Names and values *)

envXdgConfigHome == "XDG_CONFIG_HOME"
envXdgRuntimeDir == "XDG_RUNTIME_DIR"
envXdgSessionId == "XDG_SESSION_ID"
envXdgSessionType == "XDG_SESSION_TYPE"
envXdgSessionClass == "XDG_SESSION_CLASS"
envXdgSeat == "XDG_SEAT"
envHome == "HOME"
envPwd == "PWD"
envUser == "USER"
envLogname == "LOGNAME"
envXauthority == "XAUTHORITY"
envDisplay == "DISPLAY"
envShell == "SHELL"
envLang == "LANG"

\* A variable the backend may supply that the orchestrator never sets.
envOther == "PATH"

EnvNames ==
    {envXdgConfigHome, envXdgRuntimeDir, envXdgSessionId, envXdgSessionType,
     envXdgSessionClass, envXdgSeat, envHome, envPwd, envUser, envLogname,
     envXauthority, envDisplay, envShell, envLang, envOther}

\* The variable is not in the environment.
Unset == "<unset>"

\* The resolved identity (getSysuser) and the account's shell (getent).
usr_homedir == "/home/u"
usr_username == "u"
usr_strUid == "1000"
usr_shell == "/bin/sh"

\* The values conf.lang may hold: the configured one, or the user's own.
ConfLang == "en_US.UTF-8"
UserLang == "cs_CZ.UTF-8"

\* The values the authentication backend may give a variable.
PamValues == {"/root", "pam"}

Xorg == "Xorg"
Wayland == "Wayland"

\* The managed commands: the display server and the session command.
Procs == {"xorg", "session"}

\* The credential a program is started under.
OwnCred == "own"
UserCred == "user"

----------------------------------------------------------------------------
(* Bounds of the model *)

\* The backend supplies at most this many environment pairs.
MaxPamEnv == 2

\* The lock-marker sets tried differ from a full, an empty or a prefix set
\* in at most this many indices.
MaxLockDelta == 1

\* The backend calls the conversation callback at most MaxPrompts times, and
\* a direct-exec command has at most MaxExecLen pieces.
MaxPrompts == 2
MaxExecLen == 2

\* The number of display indices getFreeXDisplay scans.
NumDisplays == 32

\* The number of probes of the readiness poll.
MaxPolls == 50

----------------------------------------------------------------------------
(* Initial state *)

NoEnv == [n \in EnvNames |-> Unset]

\* The backend's environment lists of at most k pairs.
RECURSIVE PamEnvsUpTo(_)
PamEnvsUpTo(k) ==
    IF k = 0 THEN {NoEnv}
    ELSE LET smaller == PamEnvsUpTo(k - 1)
         IN  smaller \cup
             {[f EXCEPT ![n] = v] : f \in smaller, n \in EnvNames, v \in PamValues}

\* The sets of at most k elements of S.
RECURSIVE SubsetsUpTo(_, _)
SubsetsUpTo(S, k) ==
    IF k = 0 THEN {{}}
    ELSE LET smaller == SubsetsUpTo(S, k - 1)
         IN  smaller \cup {T \cup {x} : T \in smaller, x \in S}

Displays == 0 .. (NumDisplays - 1)

\* Lock-marker sets: few markers, few free indices, or markers on 0..k-1
\* and on a few indices more.
LockSets ==
    LET few == SubsetsUpTo(Displays, MaxLockDelta)
    IN  few \cup {Displays \ T : T \in few}
            \cup {((0 .. (k - 1)) \cup T) \ U :
                    k \in 0 .. NumDisplays,
                    T \in SubsetsUpTo(Displays, MaxLockDelta - 1),
                    U \in SubsetsUpTo(Displays, MaxLockDelta - 1)}

\* Strings that are split or searched are sequences of atoms: the space, the
\* two substrings prepareGuiCommand looks for, and pieces without either.
Sp == " "
XinitrcStr == ".xinitrc"
DbusLaunchStr == "dbus-launch"

\* res/conf: AUTOLOGIN=false, no DEFAULT_USER, DBUS_LAUNCH=true,
\* XINITRC_LAUNCH=false.
ConfHere ==
    [autologin |-> FALSE, defaultUser |-> "", dbusLaunch |-> TRUE,
     xinitrcLaunch |-> FALSE]

\* A desktop with a direct-exec command and a path.
DeskHere == [exec |-> <<"wm">>, path |-> <<"/usr/bin/wm">>]

\* No command built yet; the callback not called yet.
NoCmd == [name |-> <<>>, args |-> <<>>, str |-> <<>>, built |-> FALSE]
NoConv == [style |-> "none", resp |-> "", err |-> FALSE, read |-> FALSE]

\* One backend list that names a fixed session variable, a variable xorg()
\* sets and a variable nothing else sets.
PamEnvsHere ==
    [NoEnv EXCEPT ![envHome] = "/root", ![envDisplay] = "pam", ![envOther] = "pam"]

\* The state in which main calls login(): nothing authenticated, nothing
\* spawned, no handler registered.
InitFrom(pe, lk, cf, dk, xrc) ==
    /\ pc = "authUser"
    /\ exit = "alive"
    /\ authOk = FALSE
    /\ sessOpen = FALSE
    /\ closeCount = 0
    /\ denv = "unset"
    /\ lang = ConfLang
    /\ pamEnvs = pe
    /\ env = NoEnv
    /\ fx = <<>>
    /\ spawned = {}
    /\ locks = lk
    /\ freeDisplay = -1
    /\ xauth = "absent"
    /\ xsock = FALSE
    /\ polls = 0
    /\ proc = [p \in Procs |-> "none"]
    /\ sigint = [p \in Procs |-> FALSE]
    /\ fgWaited = {}
    /\ hpc = "none"
    /\ hcmds = <<>>
    /\ hi = 0
    /\ hSignalled = {}
    /\ hWaited = {}
    /\ sigSeen = FALSE
    /\ conf = cf
    /\ desk = dk
    /\ xinitrc = xrc
    /\ cmd = NoCmd
    /\ prompts = 0
    /\ conv = NoConv

\* The same with the configuration of res/conf and a desktop "wm".
InitWith(pe, lk) ==
    \E xl \in BOOLEAN :
        InitFrom(pe, lk, [ConfHere EXCEPT !.xinitrcLaunch = xl], DeskHere, TRUE)

Init == InitWith(PamEnvsHere, {0})

----------------------------------------------------------------------------
(* Fatal errors *)

\* handleErr(err): a nil error lets the caller go on at `next`; any other
\* error is logged and ends the program with status 1.
handleErr(ok, next) ==
    IF ok
    THEN /\ pc' = next
         /\ exit' = exit
    ELSE /\ pc' = "fatal"
         /\ exit' = "1"

\* handleStrErr(msg) == handleErr(errors.New(msg))
handleStrErr == handleErr(FALSE, "fatal")

Running == exit = "alive"

handlerVars == <<hpc, hcmds, hi, hSignalled, hWaited, sigSeen>>
procVars == <<proc, sigint, fgWaited>>
xVars == <<locks, freeDisplay, xauth, xsock, polls>>
pamVars == <<authOk, sessOpen, closeCount>>
inVars == <<conf, desk, xinitrc>>
convVars == <<prompts, conv>>

----------------------------------------------------------------------------
(* authUser *)

\* The mutant: the result of Authenticate is not checked.
authUser_Authenticate_Unchecked ==
    /\ Running
    /\ pc = "authUser"
    /\ \E ok \in BOOLEAN :
        /\ authOk' = ok
        /\ pc' = "OpenSession"
        /\ exit' = exit
    /\ prompts' = 0
    /\ conv' = NoConv
    /\ UNCHANGED <<sessOpen, closeCount, denv, inVars, cmd, lang, pamEnvs, env, fx, spawned>>
    /\ UNCHANGED <<xVars, procVars, handlerVars>>

\* The message styles the backend may pass to the conversation callback; the
\* last one stands for every style the switch has no case for.
PromptEchoOff == "PromptEchoOff"
PromptEchoOn == "PromptEchoOn"
ErrorMsg == "ErrorMsg"
TextInfo == "TextInfo"
BinaryPrompt == "BinaryPrompt"
Styles == {PromptEchoOff, PromptEchoOn, ErrorMsg, TextInfo, BinaryPrompt}
Prompts == {PromptEchoOff, PromptEchoOn}

\* return "", errors.New("Unrecognized message style"): the statement after
\* the switch, reached by a style without a case and by a break in a case.
Unrecognized(s) == [style |-> s, resp |-> "", err |-> TRUE, read |-> FALSE]

\* The conversation callback given to pam.StartFunc: what it returns for a
\* message of style s, and whether it read the terminal. inOk says whether
\* that read (readPassword, ReadString) succeeded.
conversation(s, cf, inOk) ==
    CASE s = PromptEchoOff ->
            IF cf.autologin
            THEN Unrecognized(s)
            ELSE [style |-> s, resp |-> IF inOk THEN "password" ELSE "",
                  err |-> ~inOk, read |-> TRUE]
      [] s = PromptEchoOn ->
            IF cf.autologin
            THEN Unrecognized(s)
            ELSE [style |-> s, resp |-> IF inOk THEN "input" ELSE "",
                  err |-> ~inOk, read |-> TRUE]
      [] s \in {ErrorMsg, TextInfo} ->
            [style |-> s, resp |-> "", err |-> FALSE, read |-> FALSE]
      [] OTHER -> Unrecognized(s)

\* The backend calls the callback once more during trans.Authenticate.
authUser_Conversation ==
    /\ Running
    /\ pc = "authUser"
    /\ prompts < MaxPrompts
    /\ \E s \in Styles, inOk \in BOOLEAN :
        conv' = conversation(s, conf, inOk)
    /\ prompts' = prompts + 1
    /\ UNCHANGED <<pc, exit, pamVars, denv, inVars, cmd, lang, pamEnvs, env, fx, spawned>>
    /\ UNCHANGED <<xVars, procVars, handlerVars>>

\* pam.StartFunc, trans.Authenticate and handleErr(err): the backend accepts
\* or rejects (or the conversation fails). The callback's last return value
\* ends with the call.
authUser_Authenticate ==
    /\ Running
    /\ pc = "authUser"
    /\ \E ok \in BOOLEAN :
        /\ authOk' = ok
        /\ handleErr(ok, "OpenSession")
    /\ prompts' = 0
    /\ conv' = NoConv
    /\ UNCHANGED <<sessOpen, closeCount, denv, inVars, cmd, lang, pamEnvs, env, fx, spawned>>
    /\ UNCHANGED <<xVars, procVars, handlerVars>>

\* trans.SetItem, trans.OpenSession (its error is dropped), trans.GetItem,
\* user.Lookup, getSysuser.
authUser_OpenSession ==
    /\ Running
    /\ pc = "OpenSession"
    /\ \E ok \in BOOLEAN : sessOpen' = ok
    /\ pc' = "loadUserDesktop"
    /\ UNCHANGED <<exit, authOk, closeCount, denv, inVars, cmd, convVars, lang, pamEnvs, env, fx, spawned>>
    /\ UNCHANGED <<xVars, procVars, handlerVars>>

----------------------------------------------------------------------------
(* login, before defineEnvironment *)

\* loadUserDesktop(usr.homedir): reads the user's desktop and language
\* choice from a file under the home directory.
loadUserDesktop == [op |-> "loadUserDesktop", home |-> TRUE]

\* d, usrLang := loadUserDesktop(usr.homedir); selectDesktop when there is
\* no stored choice; conf.lang = usrLang when the user has one.
login_loadUserDesktop ==
    /\ Running
    /\ pc = "loadUserDesktop"
    /\ fx' = Append(fx, loadUserDesktop)
    /\ \E e \in {Xorg, Wayland} : denv' = e
    /\ \E usrLang \in {"", UserLang} :
        lang' = IF usrLang # "" THEN usrLang ELSE lang
    /\ pc' = "defineEnvironment"
    /\ UNCHANGED <<exit, pamVars, inVars, cmd, convVars, pamEnvs, env, spawned>>
    /\ UNCHANGED <<xVars, procVars, handlerVars>>

----------------------------------------------------------------------------
(* defineEnvironment *)

\* for key, value := range envs { os.Setenv(key, value) }
SetenvAll(e, pe) ==
    [n \in EnvNames |-> IF pe[n] # Unset THEN pe[n] ELSE e[n]]

\* The fixed session variables set before getUserShell is called.
SetenvFixed(e) ==
    [e EXCEPT ![envHome] = usr_homedir,
              ![envPwd] = usr_homedir,
              ![envUser] = usr_username,
              ![envLogname] = usr_username,
              ![envXdgConfigHome] = usr_homedir \o "/.config",
              ![envXdgRuntimeDir] = "/run/user/" \o usr_strUid,
              ![envXdgSeat] = "seat0",
              ![envXdgSessionClass] = "user"]

\* The mutant: the backend's pairs are applied after the fixed variables.
defineEnvironment_Vars_BackendLast(e, pe) == SetenvAll(SetenvFixed(e), pe)

\* The environment after the backend's pairs and then the fixed variables
\* up to XDG_SESSION_CLASS are set.
defineEnvironment_Vars(e, pe) == SetenvFixed(SetenvAll(e, pe))

defineEnvironment_Setenv ==
    /\ Running
    /\ pc = "defineEnvironment"
    /\ env' = defineEnvironment_Vars(env, pamEnvs)
    /\ pc' = "getUserShell"
    /\ UNCHANGED <<exit, pamVars, denv, inVars, cmd, convVars, lang, pamEnvs, fx, spawned>>
    /\ UNCHANGED <<xVars, procVars, handlerVars>>

\* os.Setenv(envShell, getUserShell(usr)): getent runs under the
\* orchestrator's own credential; its failure is fatal.
getUserShell ==
    /\ Running
    /\ pc = "getUserShell"
    /\ spawned' = spawned \cup {[prog |-> "getent", cred |-> OwnCred]}
    /\ \E ok \in BOOLEAN :
        /\ handleErr(ok, "SetenvLang")
        /\ env' = IF ok THEN [env EXCEPT ![envShell] = usr_shell] ELSE env
    /\ UNCHANGED <<pamVars, denv, inVars, cmd, convVars, lang, pamEnvs, fx>>
    /\ UNCHANGED <<xVars, procVars, handlerVars>>

\* os.Setenv(envLang, conf.lang)
defineEnvironment_SetenvLang ==
    /\ Running
    /\ pc = "SetenvLang"
    /\ env' = [env EXCEPT ![envLang] = lang]
    /\ pc' = "MkdirAll"
    /\ UNCHANGED <<exit, pamVars, denv, inVars, cmd, convVars, lang, pamEnvs, fx, spawned>>
    /\ UNCHANGED <<xVars, procVars, handlerVars>>

\* One side effect of the foreground flow.
Effect(name, underHome) == [op |-> name, home |-> underHome]

\* A step whose error goes to handleErr.
FatalStep(at, name, next) ==
    /\ Running
    /\ pc = at
    /\ \E ok \in BOOLEAN :
        /\ handleErr(ok, next)
        /\ fx' = IF ok THEN Append(fx, Effect(name, FALSE)) ELSE fx
    /\ UNCHANGED <<pamVars, denv, inVars, cmd, convVars, lang, pamEnvs, env, spawned>>
    /\ UNCHANGED <<xVars, procVars, handlerVars>>

\* A step whose error is dropped.
UncheckedStep(at, name, underHome, next) ==
    /\ Running
    /\ pc = at
    /\ \E ok \in BOOLEAN :
        fx' = IF ok THEN Append(fx, Effect(name, underHome)) ELSE fx
    /\ pc' = next
    /\ UNCHANGED <<exit, pamVars, denv, inVars, cmd, convVars, lang, pamEnvs, env, spawned>>
    /\ UNCHANGED <<xVars, procVars, handlerVars>>

defineEnvironment_MkdirAll == FatalStep("MkdirAll", "MkdirAll", "Chown")
defineEnvironment_Chown == UncheckedStep("Chown", "Chown", FALSE, "Setfsuid")
defineEnvironment_Setfsuid == FatalStep("Setfsuid", "Setfsuid", "Setfsgid")
defineEnvironment_Setfsgid == FatalStep("Setfsgid", "Setfsgid", "Setgroups")
defineEnvironment_Setgroups == FatalStep("Setgroups", "Setgroups", "Chdir")
defineEnvironment_Chdir == UncheckedStep("Chdir", "Chdir", TRUE, "switch")

\* switch d.env
login_Switch ==
    /\ Running
    /\ pc = "switch"
    /\ pc' = IF denv = Wayland THEN "wayland" ELSE "xorg"
    /\ UNCHANGED <<exit, pamVars, denv, inVars, cmd, convVars, lang, pamEnvs, env, fx, spawned>>
    /\ UNCHANGED <<xVars, procVars, handlerVars>>

----------------------------------------------------------------------------
(* Child processes and the handler's registration *)

\* cmd.Start() succeeded: cmd.Process is set and the program runs under cred.
Started(c, prog, cred) ==
    /\ proc' = [proc EXCEPT ![c] = "running"]
    /\ spawned' = spawned \cup {[prog |-> prog, cred |-> cred]}

\* cmd.Process.Signal(os.Interrupt) on a started command: delivered to a
\* running process, an ignored error on one that has exited.
Interrupted(c) ==
    sigint' = [sigint EXCEPT ![c] = (sigint[c] \/ proc[c] = "running")]

\* The foreground flow, or the handler, is inside c.Wait().
fgWaiting(c) ==
    pc \in (IF c = "xorg" THEN {"failed_Wait", "xorg_Wait"}
                          ELSE {"wayland_Wait", "xinit_Wait"})
hWaiting(c) == hpc = "Wait" /\ hcmds[hi] = c

\* cmd.Wait() called by g returns once the process has exited (with an
\* error, which the callers drop, when it was waited for before). The two
\* goroutines share the *exec.Cmd without synchronisation: when both are in
\* Wait, the one that called second may find the Cmd marked as waited for
\* and return at once ("Wait was already called"), or wait as well.
WaitReturns(g, c) ==
    \/ proc[c] = "exited"
    \/ IF g = "handler" THEN fgWaiting(c) ELSE hWaiting(c)

\* signal.Notify(c, ...) and go handleInterrupt(c, cmds...): the goroutine
\* holds the very *exec.Cmd values of the foreground flow.
registerInterruptHandler(cmds) ==
    /\ hcmds' = cmds
    /\ hpc' = "start"

\* A running child process ends by itself, or because it was interrupted.
ProcExit(c) ==
    /\ Running
    /\ proc[c] = "running"
    /\ proc' = [proc EXCEPT ![c] = "exited"]
    /\ UNCHANGED <<pc, exit, pamVars, denv, inVars, cmd, convVars, lang, pamEnvs, env, fx, spawned>>
    /\ UNCHANGED <<xVars, sigint, fgWaited, handlerVars>>

\* The running display server creates its socket. Only the readiness poll
\* reads the socket marker, so only there does its appearance matter.
XorgReady ==
    /\ Running
    /\ pc = "poll"
    /\ proc["xorg"] = "running"
    /\ ~xsock
    /\ xsock' = TRUE
    /\ UNCHANGED <<pc, exit, pamVars, denv, inVars, cmd, convVars, lang, pamEnvs, env, fx, spawned>>
    /\ UNCHANGED <<locks, freeDisplay, xauth, polls, procVars, handlerVars>>

----------------------------------------------------------------------------
(* wayland *)

\* strings.Contains(s, sub) for the substrings the program looks for.
Contains(s, sub) == \E i \in 1..Len(s) : s[i] = sub

\* strings.Split(s, " "): the pieces between the spaces, empty pieces kept.
RECURSIVE Split(_)
Split(s) ==
    IF ~Contains(s, Sp)
    THEN <<s>>
    ELSE LET k == CHOOSE i \in 1..Len(s) :
                      s[i] = Sp /\ \A j \in 1..(i - 1) : s[j] # Sp
         IN  <<SubSeq(s, 1, k - 1)>> \o Split(SubSeq(s, k + 1, Len(s)))

\* exec.Command(name, arg...): Path is name, Args is name followed by arg.
Command(name, arg) == [name |-> name, args |-> <<name>> \o arg]

\* if d.exec != "" { return d.exec, true }; return d.path, false
getStrExec(d) ==
    IF d.exec # <<>> THEN [str |-> d.exec, allow |-> TRUE]
                     ELSE [str |-> d.path, allow |-> FALSE]

\* The conditions of prepareGuiCommand's first if, before fileExists: && stops
\* at the first false operand, so only then is ~/.xinitrc looked up.
xinitrcProbed(e, d, cf) ==
    /\ e = Xorg
    /\ cf.xinitrcLaunch
    /\ getStrExec(d).allow
    /\ ~Contains(getStrExec(d).str, XinitrcStr)

\* The mutant: dbus-launch is prepended whether or not the startup script
\* was.
prepareGuiCommand_BothPrefixes(e, d, cf, exists) ==
    LET g == getStrExec(d)
        script == xinitrcProbed(e, d, cf) /\ exists
        str1 == IF script
                THEN <<usr_homedir, "/", XinitrcStr, Sp>> \o g.str
                ELSE g.str
        str2 == IF cf.dbusLaunch /\ ~Contains(g.str, DbusLaunchStr) /\ g.allow
                THEN <<DbusLaunchStr, Sp>> \o str1
                ELSE str1
        arrExec == Split(str2)
        c == IF Len(arrExec) > 1 THEN Command(arrExec[1], arrExec)
                                 ELSE Command(arrExec[1], <<>>)
    IN  [name |-> c.name, args |-> c.args, str |-> str2, built |-> TRUE]

\* prepareGuiCommand: the command string with its prefix, and the command
\* built from its pieces.
prepareGuiCommand(e, d, cf, exists) ==
    LET g == getStrExec(d)
        script == xinitrcProbed(e, d, cf) /\ exists
        allow1 == IF script THEN FALSE ELSE g.allow
        str1 == IF script
                THEN <<usr_homedir, "/", XinitrcStr, Sp>> \o g.str
                ELSE g.str
        str2 == IF cf.dbusLaunch /\ ~Contains(str1, DbusLaunchStr) /\ allow1
                THEN <<DbusLaunchStr, Sp>> \o str1
                ELSE str1
        arrExec == Split(str2)
        c == IF Len(arrExec) > 1 THEN Command(arrExec[1], arrExec)
                                 ELSE Command(arrExec[1], <<>>)
    IN  [name |-> c.name, args |-> c.args, str |-> str2, built |-> TRUE]

\* The call of prepareGuiCommand in wayland() and xorg(): the command, and
\* the lookup of ~/.xinitrc among the effects when it is made.
GuiCommand ==
    /\ cmd' = prepareGuiCommand(denv, desk, conf, xinitrc)
    /\ fx' = IF xinitrcProbed(denv, desk, conf)
             THEN Append(fx, Effect("fileExists(.xinitrc)", TRUE))
             ELSE fx

\* The mutant: wayland() sets DISPLAY as xorg() does.
wayland_Setenv_Display ==
    /\ Running
    /\ pc = "wayland"
    /\ env' = [env EXCEPT ![envXdgSessionType] = "wayland", ![envDisplay] = ":0"]
    /\ pc' = "wayland_prepare"
    /\ UNCHANGED <<exit, pamVars, denv, inVars, cmd, convVars, lang, pamEnvs, fx, spawned>>
    /\ UNCHANGED <<xVars, procVars, handlerVars>>

\* os.Setenv(envXdgSessionType, "wayland")
wayland_Setenv ==
    /\ Running
    /\ pc = "wayland"
    /\ env' = [env EXCEPT ![envXdgSessionType] = "wayland"]
    /\ pc' = "wayland_prepare"
    /\ UNCHANGED <<exit, pamVars, denv, inVars, cmd, convVars, lang, pamEnvs, fx, spawned>>
    /\ UNCHANGED <<xVars, procVars, handlerVars>>

\* wayland, strExec := prepareGuiCommand(...); registerInterruptHandler(wayland)
wayland_Register ==
    /\ Running
    /\ pc = "wayland_prepare"
    /\ GuiCommand
    /\ registerInterruptHandler(<<"session">>)
    /\ pc' = "wayland_Start"
    /\ UNCHANGED <<exit, pamVars, denv, inVars, convVars, lang, pamEnvs, env, spawned>>
    /\ UNCHANGED <<xVars, procVars, hi, hSignalled, hWaited, sigSeen>>

\* err := wayland.Start(); handleErr(err)
wayland_Start ==
    /\ Running
    /\ pc = "wayland_Start"
    /\ \E ok \in BOOLEAN :
        /\ handleErr(ok, "wayland_Wait")
        /\ IF ok THEN Started("session", "session", UserCred)
                 ELSE UNCHANGED <<proc, spawned>>
    /\ UNCHANGED <<pamVars, denv, inVars, cmd, convVars, lang, pamEnvs, env, fx>>
    /\ UNCHANGED <<xVars, sigint, fgWaited, handlerVars>>

\* wayland.Wait()
wayland_Wait ==
    /\ Running
    /\ pc = "wayland_Wait"
    /\ WaitReturns("fg", "session")
    /\ fgWaited' = fgWaited \cup {"session"}
    /\ pc' = "CloseSession"
    /\ UNCHANGED <<exit, pamVars, denv, inVars, cmd, convVars, lang, pamEnvs, env, fx, spawned>>
    /\ UNCHANGED <<xVars, proc, sigint, handlerVars>>

----------------------------------------------------------------------------
(* xorg *)

\* The mutant: a scan that finds no free index returns the index after the last.
RECURSIVE getFreeXDisplay_NoFallback(_, _)
getFreeXDisplay_NoFallback(i, lk) ==
    IF i < NumDisplays
    THEN IF i \notin lk THEN i ELSE getFreeXDisplay_NoFallback(i + 1, lk)
    ELSE i

\* for i := 0; i < 32; i++ { if !fileExists("/tmp/.X<i>-lock") { return i } }
\* return 0
RECURSIVE getFreeXDisplay(_, _)
getFreeXDisplay(i, lk) ==
    IF i < NumDisplays
    THEN IF i \notin lk THEN i ELSE getFreeXDisplay(i + 1, lk)
    ELSE 0

\* freeDisplay := strconv.Itoa(getFreeXDisplay()) and the three os.Setenv
xorg_Setenv ==
    /\ Running
    /\ pc = "xorg"
    /\ freeDisplay' = getFreeXDisplay(0, locks)
    /\ env' = [env EXCEPT ![envXdgSessionType] = "x11",
                          ![envXauthority] = env[envXdgRuntimeDir] \o "/.emptty-xauth",
                          ![envDisplay] = ":" \o ToString(freeDisplay')]
    /\ pc' = "xorg_Create"
    /\ UNCHANGED <<exit, pamVars, denv, inVars, cmd, convVars, lang, pamEnvs, fx, spawned>>
    /\ UNCHANGED <<locks, xauth, xsock, polls, procVars, handlerVars>>

\* os.Remove, os.Create of the authority file, handleErr(err)
xorg_Create ==
    /\ Running
    /\ pc = "xorg_Create"
    /\ \E ok \in BOOLEAN :
        /\ handleErr(ok, "xorg_mcookie")
        /\ xauth' = IF ok THEN "present" ELSE xauth
    /\ UNCHANGED <<pamVars, denv, inVars, cmd, convVars, lang, pamEnvs, env, fx, spawned>>
    /\ UNCHANGED <<locks, freeDisplay, xsock, polls, procVars, handlerVars>>

\* A helper program run to completion with cmd.Output(), handleErr(err).
Output(at, prog, cred, next) ==
    /\ Running
    /\ pc = at
    /\ spawned' = spawned \cup {[prog |-> prog, cred |-> cred]}
    /\ \E ok \in BOOLEAN : handleErr(ok, next)
    /\ UNCHANGED <<pamVars, denv, inVars, cmd, convVars, lang, pamEnvs, env, fx>>
    /\ UNCHANGED <<xVars, procVars, handlerVars>>

\* /usr/bin/mcookie, under the orchestrator's own credential
xorg_mcookie == Output("xorg_mcookie", "mcookie", OwnCred, "xorg_xauth")

\* The mutant: xauth is run without the user's credential.
xorg_xauth_OwnCred == Output("xorg_xauth", "xauth", OwnCred, "xorg_Start")

\* /usr/bin/xauth add, under the user's credential
xorg_xauth == Output("xorg_xauth", "xauth", UserCred, "xorg_Start")

\* xorg.Start(); if xorg.Process == nil { handleStrErr(...) }
xorg_Start ==
    /\ Running
    /\ pc = "xorg_Start"
    /\ \E ok \in BOOLEAN :
        IF ok
        THEN /\ Started("xorg", "Xorg", OwnCred)
             /\ pc' = "poll"
             /\ exit' = exit
        ELSE /\ handleStrErr
             /\ UNCHANGED <<proc, spawned>>
    /\ UNCHANGED <<pamVars, denv, inVars, cmd, convVars, lang, pamEnvs, env, fx>>
    /\ UNCHANGED <<xVars, sigint, fgWaited, handlerVars>>

\* The mutant: an exhausted poll is treated as an error.
xorg_Poll_TimeoutFatal ==
    /\ Running
    /\ pc = "poll"
    /\ IF polls < MaxPolls /\ ~xsock
       THEN /\ polls' = polls + 1
            /\ pc' = pc
            /\ exit' = exit
       ELSE /\ polls' = polls
            /\ handleErr(xsock, "xorg_prepare")
    /\ UNCHANGED <<pamVars, denv, inVars, cmd, convVars, lang, pamEnvs, env, fx, spawned>>
    /\ UNCHANGED <<locks, freeDisplay, xauth, xsock, procVars, handlerVars>>

\* One iteration of the readiness poll: break when the socket marker is
\* there, sleep otherwise; the loop ends after MaxPolls iterations.
xorg_Poll ==
    /\ Running
    /\ pc = "poll"
    /\ IF polls < MaxPolls /\ ~xsock
       THEN /\ polls' = polls + 1
            /\ pc' = pc
       ELSE /\ polls' = polls
            /\ pc' = "xorg_prepare"
    /\ UNCHANGED <<exit, pamVars, denv, inVars, cmd, convVars, lang, pamEnvs, env, fx, spawned>>
    /\ UNCHANGED <<locks, freeDisplay, xauth, xsock, procVars, handlerVars>>

\* xinit, strExec := prepareGuiCommand(...), which may probe ~/.xinitrc;
\* registerInterruptHandler(xorg, xinit)
xorg_Register ==
    /\ Running
    /\ pc = "xorg_prepare"
    /\ GuiCommand
    /\ registerInterruptHandler(<<"xorg", "session">>)
    /\ pc' = "xinit_Start"
    /\ UNCHANGED <<exit, pamVars, denv, inVars, convVars, lang, pamEnvs, env, spawned>>
    /\ UNCHANGED <<xVars, procVars, hi, hSignalled, hWaited, sigSeen>>

\* err = xinit.Start()
xorg_xinitStart ==
    /\ Running
    /\ pc = "xinit_Start"
    /\ \E ok \in BOOLEAN :
        IF ok
        THEN /\ Started("session", "session", UserCred)
             /\ pc' = "xinit_Wait"
        ELSE /\ UNCHANGED <<proc, spawned>>
             /\ pc' = "failed_Signal"
    /\ UNCHANGED <<exit, pamVars, denv, inVars, cmd, convVars, lang, pamEnvs, env, fx>>
    /\ UNCHANGED <<xVars, sigint, fgWaited, handlerVars>>

\* if err != nil { xorg.Process.Signal(os.Interrupt) ...
xorg_FailedSignal ==
    /\ Running
    /\ pc = "failed_Signal"
    /\ Interrupted("xorg")
    /\ pc' = "failed_Wait"
    /\ UNCHANGED <<exit, pamVars, denv, inVars, cmd, convVars, lang, pamEnvs, env, fx, spawned>>
    /\ UNCHANGED <<xVars, proc, fgWaited, handlerVars>>

\* ... xorg.Wait(); handleErr(err) }
xorg_FailedWait ==
    /\ Running
    /\ pc = "failed_Wait"
    /\ WaitReturns("fg", "xorg")
    /\ fgWaited' = fgWaited \cup {"xorg"}
    /\ handleErr(FALSE, "fatal")
    /\ UNCHANGED <<pamVars, denv, inVars, cmd, convVars, lang, pamEnvs, env, fx, spawned>>
    /\ UNCHANGED <<xVars, proc, sigint, handlerVars>>

\* xinit.Wait()
xorg_xinitWait ==
    /\ Running
    /\ pc = "xinit_Wait"
    /\ WaitReturns("fg", "session")
    /\ fgWaited' = fgWaited \cup {"session"}
    /\ pc' = "xorg_Signal"
    /\ UNCHANGED <<exit, pamVars, denv, inVars, cmd, convVars, lang, pamEnvs, env, fx, spawned>>
    /\ UNCHANGED <<xVars, proc, sigint, handlerVars>>

\* The mutant: the error of Signal on a process that has exited is treated
\* as fatal.
xorg_Signal_ErrFatal ==
    /\ Running
    /\ pc = "xorg_Signal"
    /\ Interrupted("xorg")
    /\ handleErr(proc["xorg"] = "running", "xorg_Wait")
    /\ UNCHANGED <<pamVars, denv, inVars, cmd, convVars, lang, pamEnvs, env, fx, spawned>>
    /\ UNCHANGED <<xVars, proc, fgWaited, handlerVars>>

\* Stop Xorg: xorg.Process.Signal(os.Interrupt)
xorg_Signal ==
    /\ Running
    /\ pc = "xorg_Signal"
    /\ Interrupted("xorg")
    /\ pc' = "xorg_Wait"
    /\ UNCHANGED <<exit, pamVars, denv, inVars, cmd, convVars, lang, pamEnvs, env, fx, spawned>>
    /\ UNCHANGED <<xVars, proc, fgWaited, handlerVars>>

\* xorg.Wait()
xorg_Wait ==
    /\ Running
    /\ pc = "xorg_Wait"
    /\ WaitReturns("fg", "xorg")
    /\ fgWaited' = fgWaited \cup {"xorg"}
    /\ pc' = "xorg_Remove"
    /\ UNCHANGED <<exit, pamVars, denv, inVars, cmd, convVars, lang, pamEnvs, env, fx, spawned>>
    /\ UNCHANGED <<xVars, proc, sigint, handlerVars>>

\* Remove auth: os.Remove(os.Getenv(envXauthority))
xorg_Remove ==
    /\ Running
    /\ pc = "xorg_Remove"
    /\ xauth' = "removed"
    /\ pc' = "CloseSession"
    /\ UNCHANGED <<exit, pamVars, denv, inVars, cmd, convVars, lang, pamEnvs, env, fx, spawned>>
    /\ UNCHANGED <<locks, freeDisplay, xsock, polls, procVars, handlerVars>>

----------------------------------------------------------------------------
(* The end of login and of main *)

\* trans.CloseSession(pam.Silent)
login_CloseSession ==
    /\ Running
    /\ pc = "CloseSession"
    /\ closeCount' = closeCount + 1
    /\ pc' = "return"
    /\ UNCHANGED <<exit, authOk, sessOpen, denv, inVars, cmd, convVars, lang, pamEnvs, env, fx, spawned>>
    /\ UNCHANGED <<xVars, procVars, handlerVars>>

\* login, showLoginScreen and main return: the program ends with status 0,
\* whatever its other goroutine is doing.
main_Return ==
    /\ Running
    /\ pc = "return"
    /\ exit' = "0"
    /\ pc' = "done"
    /\ UNCHANGED <<pamVars, denv, inVars, cmd, convVars, lang, pamEnvs, env, fx, spawned>>
    /\ UNCHANGED <<xVars, procVars, handlerVars>>

----------------------------------------------------------------------------
(* handleInterrupt and the delivery of signals *)

fgVars == <<pc, pamVars, denv, inVars, cmd, convVars, lang, pamEnvs, env, fx, spawned>>

\* The goroutine started by registerInterruptHandler reaches <-c.
handleInterrupt_Receive ==
    /\ Running
    /\ hpc = "start"
    /\ hpc' = "recv"
    /\ UNCHANGED <<fgVars, exit, xVars, procVars>>
    /\ UNCHANGED <<hcmds, hi, hSignalled, hWaited, sigSeen>>

\* A termination signal before signal.Notify was called: the Go runtime's
\* default disposition ends the program at once.
Signal_Default ==
    /\ Running
    /\ hpc = "none"
    /\ exit' = "sig"
    /\ UNCHANGED <<fgVars, xVars, procVars, handlerVars>>

\* A termination signal while no goroutine is blocked in <-c: the channel is
\* unbuffered and signal.Notify's send does not block, so the signal is lost.
Signal_Lost ==
    /\ Running
    /\ hpc \notin {"none", "recv"}
    /\ ~sigSeen
    /\ sigSeen' = TRUE
    /\ UNCHANGED <<fgVars, exit, xVars, procVars>>
    /\ UNCHANGED <<hpc, hcmds, hi, hSignalled, hWaited>>

\* <-c: a termination signal reaches the waiting goroutine.
handleInterrupt_Signal ==
    /\ Running
    /\ hpc = "recv"
    /\ sigSeen' = TRUE
    /\ hi' = 1
    /\ hpc' = IF Len(hcmds) = 0 THEN "Exit" ELSE "Interrupt"
    /\ UNCHANGED <<fgVars, exit, xVars, procVars>>
    /\ UNCHANGED <<hcmds, hSignalled, hWaited>>

\* The mutant: the goroutine holds copies of the commands as they were when
\* registerInterruptHandler was called, so the session command, started
\* after that, still has a nil Process.
handleInterrupt_Interrupt_Snapshot ==
    /\ Running
    /\ hpc = "Interrupt"
    /\ LET c == hcmds[hi]
       IN  IF proc[c] = "none" \/ c = "session"
           THEN /\ exit' = "2"
                /\ UNCHANGED <<sigint, hSignalled, hpc>>
           ELSE /\ Interrupted(c)
                /\ hSignalled' = hSignalled \cup {c}
                /\ hpc' = "Wait"
                /\ exit' = exit
    /\ UNCHANGED <<fgVars, xVars, proc, fgWaited>>
    /\ UNCHANGED <<hcmds, hi, hWaited, sigSeen>>

\* cmd.Process.Signal(os.Interrupt) for cmd = cmds[hi]: a command that was
\* not started has a nil Process, and the call panics (exit status 2).
handleInterrupt_Interrupt ==
    /\ Running
    /\ hpc = "Interrupt"
    /\ LET c == hcmds[hi]
       IN  IF proc[c] = "none"
           THEN /\ exit' = "2"
                /\ UNCHANGED <<sigint, hSignalled, hpc>>
           ELSE /\ Interrupted(c)
                /\ hSignalled' = hSignalled \cup {c}
                /\ hpc' = "Wait"
                /\ exit' = exit
    /\ UNCHANGED <<fgVars, xVars, proc, fgWaited>>
    /\ UNCHANGED <<hcmds, hi, hWaited, sigSeen>>

\* cmd.Wait() for cmd = cmds[hi], then the next cmd of the range loop
handleInterrupt_Wait ==
    /\ Running
    /\ hpc = "Wait"
    /\ WaitReturns("handler", hcmds[hi])
    /\ hWaited' = hWaited \cup {hcmds[hi]}
    /\ hi' = hi + 1
    /\ hpc' = IF hi + 1 > Len(hcmds) THEN "Exit" ELSE "Interrupt"
    /\ UNCHANGED <<fgVars, exit, xVars, procVars>>
    /\ UNCHANGED <<hcmds, hSignalled, sigSeen>>

\* os.Exit(1)
handleInterrupt_Exit ==
    /\ Running
    /\ hpc = "Exit"
    /\ exit' = "1"
    /\ UNCHANGED <<fgVars, xVars, procVars, handlerVars>>

----------------------------------------------------------------------------
(* The program *)

\* login() up to the end of defineEnvironment
Prologue ==
    \/ authUser_Conversation
    \/ authUser_Authenticate
    \/ authUser_OpenSession
    \/ login_loadUserDesktop
    \/ defineEnvironment_Setenv
    \/ getUserShell
    \/ defineEnvironment_SetenvLang
    \/ defineEnvironment_MkdirAll
    \/ defineEnvironment_Chown
    \/ defineEnvironment_Setfsuid
    \/ defineEnvironment_Setfsgid
    \/ defineEnvironment_Setgroups
    \/ defineEnvironment_Chdir
    \/ login_Switch

Next ==
    \/ Prologue
    \/ wayland_Setenv
    \/ wayland_Register
    \/ wayland_Start
    \/ wayland_Wait
    \/ xorg_Setenv
    \/ xorg_Create
    \/ xorg_mcookie
    \/ xorg_xauth
    \/ xorg_Start
    \/ xorg_Poll
    \/ xorg_Register
    \/ xorg_xinitStart
    \/ xorg_FailedSignal
    \/ xorg_FailedWait
    \/ xorg_xinitWait
    \/ xorg_Signal
    \/ xorg_Wait
    \/ xorg_Remove
    \/ login_CloseSession
    \/ main_Return
    \/ \E c \in Procs : ProcExit(c)
    \/ XorgReady
    \/ handleInterrupt_Receive
    \/ Signal_Default
    \/ Signal_Lost
    \/ handleInterrupt_Signal
    \/ handleInterrupt_Interrupt
    \/ handleInterrupt_Wait
    \/ handleInterrupt_Exit

Spec == Init /\ [][Next]_vars

----------------------------------------------------------------------------
(* The program under every bounded backend environment list: login() up to *)
(* the last os.Setenv of defineEnvironment.                                *)

InitEnv == \E pe \in PamEnvsUpTo(MaxPamEnv) : InitWith(pe, {0})

NextEnv ==
    \/ authUser_Conversation
    \/ authUser_Authenticate
    \/ authUser_OpenSession
    \/ login_loadUserDesktop
    \/ defineEnvironment_Setenv
    \/ getUserShell
    \/ defineEnvironment_SetenvLang

SpecEnv == InitEnv /\ [][NextEnv]_vars

(* The program under every bounded set of lock markers: login() up to the  *)
(* display allocation of xorg().                                           *)

InitDisplay == \E lk \in LockSets : InitWith(PamEnvsHere, lk)

NextDisplay ==
    \/ Prologue
    \/ xorg_Setenv

SpecDisplay == InitDisplay /\ [][NextDisplay]_vars

(* The program under every setting of autologin and of the default user    *)
(* (autologin needs a default user): login() up to the end of              *)
(* defineEnvironment.                                                      *)

Confs ==
    [autologin : BOOLEAN, defaultUser : {"", usr_username},
     dbusLaunch : BOOLEAN, xinitrcLaunch : BOOLEAN]

InitAuth ==
    \E cf \in Confs :
        /\ cf.dbusLaunch /\ ~cf.xinitrcLaunch
        /\ cf.autologin => cf.defaultUser # ""
        /\ InitFrom(PamEnvsHere, {0}, cf, DeskHere, TRUE)

NextAuth == Prologue

SpecAuth == InitAuth /\ [][NextAuth]_vars

(* The program under every bounded desktop command, both launch options    *)
(* and both answers of the ~/.xinitrc lookup: login() up to the call of     *)
(* prepareGuiCommand in wayland() and in xorg().                           *)

ExecAtoms == {"wm", Sp, XinitrcStr, DbusLaunchStr}

ExecStrings ==
    UNION {[1..n -> ExecAtoms] : n \in 0..MaxExecLen}

\* The path is only read when there is no direct-exec command, so only then
\* are two paths tried.
Desks ==
    {dk \in [exec : ExecStrings, path : {DeskHere.path, <<"/opt/my", Sp, "wm">>}] :
        dk.exec = <<>> \/ dk.path = DeskHere.path}

InitGui ==
    \E cf \in Confs, dk \in Desks, xrc \in BOOLEAN :
        /\ ~cf.autologin /\ cf.defaultUser = ""
        /\ InitFrom(PamEnvsHere, {0}, cf, dk, xrc)

NextGui ==
    \/ Prologue
    \/ login_Switch
    \/ wayland_Setenv
    \/ wayland_Register
    \/ xorg_Setenv
    \/ xorg_Create
    \/ xorg_mcookie
    \/ xorg_xauth
    \/ xorg_Start
    \/ xorg_Poll
    \/ XorgReady
    \/ xorg_Register

SpecGui == InitGui /\ [][NextGui]_vars

----------------------------------------------------------------------------
(* Properties *)

Ended == exit # "alive"

\* handleInterrupt has received a signal from its channel.
Received == hpc \in {"Interrupt", "Wait", "Exit"}

Registered == {hcmds[i] : i \in DOMAIN hcmds}

\* The operations of the uid, gid and supplementary-group transition.
Transition == {"Setfsuid", "Setfsgid", "Setgroups"}

\* The program has ended by main returning or by handleInterrupt's os.Exit(1),
\* the two ways of ending that need no fatal error of the foreground flow.
EndedOrderly == exit \in {"0", "1"} /\ pc # "fatal"

\* C1: when the session was opened and the program has ended by returning
\* from main or by handleInterrupt's exit, CloseSession was called exactly
\* once.
C1_SessionClosedExactlyOnce ==
    (EndedOrderly /\ sessOpen) => closeCount = 1

\* C2: every access under the home directory comes after Setfsuid, Setfsgid
\* and Setgroups have all been done.
C2_NoHomeAccessBeforeTransition ==
    \A i \in DOMAIN fx :
        fx[i].home => Transition \subseteq {fx[j].op : j \in 1 .. (i - 1)}

\* C3: in an X11 session in which the session process was started, the
\* display server has been sent an interrupt only if the session process
\* has exited.
C3_ServerInterruptedAfterSession ==
    (denv = Xorg /\ sigint["xorg"] /\ proc["session"] # "none")
        => proc["session"] = "exited"

\* C4: in xorg(), when handleInterrupt received a termination signal and
\* the program has ended without a fatal error of the foreground flow, every
\* registered process was sent an interrupt and waited for by
\* handleInterrupt and the exit status is 1.
C4_SignalStopsAllAndExitsOne ==
    (denv = Xorg /\ Received /\ Ended /\ pc # "fatal")
        => /\ exit = "1"
           /\ \A c \in Registered : c \in hSignalled /\ c \in hWaited

\* C5: the exit status is 0 exactly when login() returned and handleInterrupt
\* received no signal, and it is 1 whenever handleInterrupt received one.
C5_ExitStatus ==
    Ended => /\ (exit = "0") <=> (pc = "done" /\ ~Received)
             /\ Received => exit = "1"

\* C6: when the program has ended after the display server was started, the
\* display server has exited and was waited for.
C6_NoServerLeftRunning ==
    (Ended /\ proc["xorg"] # "none")
        => /\ proc["xorg"] = "exited"
           /\ "xorg" \in (fgWaited \cup hWaited)

\* C7: when xorg() created the authority file and the program has ended by
\* returning from main or by handleInterrupt's exit, the authority file has
\* been removed.
C7_AuthorityFileRemoved ==
    (EndedOrderly /\ xauth # "absent") => xauth = "removed"

\* C8: getFreeXDisplay returns an index in 0..31: 0 when all 32 indices have
\* a marker, the smallest index without a marker otherwise.
C8_SmallestFreeDisplay ==
    freeDisplay # -1 =>
        /\ freeDisplay \in 0 .. 31
        /\ IF \A j \in 0 .. 31 : j \in locks
           THEN freeDisplay = 0
           ELSE /\ freeDisplay \notin locks
                /\ \A j \in 0 .. (freeDisplay - 1) : j \in locks

\* The allocation skipped markers and chose a display other than 0.
C8_Witness ==
    /\ freeDisplay > 0
    /\ freeDisplay \notin locks
    /\ pc = "xorg_Create"

\* The fixed session variables and the values the orchestrator gives them.
FixedValue ==
    [n \in {envHome, envPwd, envUser, envLogname, envXdgConfigHome,
            envXdgRuntimeDir, envXdgSeat, envXdgSessionClass, envShell, envLang} |->
        CASE n = envHome -> "/home/u"
          [] n = envPwd -> "/home/u"
          [] n = envUser -> "u"
          [] n = envLogname -> "u"
          [] n = envXdgConfigHome -> "/home/u/.config"
          [] n = envXdgRuntimeDir -> "/run/user/1000"
          [] n = envXdgSeat -> "seat0"
          [] n = envXdgSessionClass -> "user"
          [] n = envShell -> "/bin/sh"
          [] n = envLang -> lang]

\* C9: after the os.Setenv calls of defineEnvironment every fixed session
\* variable holds the orchestrator's value, and every other variable the
\* backend supplied holds the backend's value.
C9_FixedVariablesWin ==
    pc = "MkdirAll" =>
        /\ \A n \in DOMAIN FixedValue : env[n] = FixedValue[n]
        /\ \A n \in EnvNames \ DOMAIN FixedValue :
               pamEnvs[n] # Unset => env[n] = pamEnvs[n]

\* The backend supplied HOME and a variable that is not a fixed one.
C9_Witness ==
    /\ pc = "MkdirAll"
    /\ pamEnvs[envHome] = "/root"
    /\ pamEnvs[envOther] = "pam"
    /\ env[envHome] = "/home/u"
    /\ env[envOther] = "pam"

\* C10: as long as Authenticate has not succeeded no environment variable is
\* set and no process is spawned, and a rejection ends the program.
C10_NothingBeforeAuthenticate ==
    ~authOk =>
        /\ env = NoEnv
        /\ spawned = {}
        /\ \A c \in Procs : proc[c] = "none"
        /\ pc # "authUser" => (exit = "1" /\ pc = "fatal")

\* The backend rejected the credentials and the program has ended.
C10_Witness ==
    /\ ~authOk
    /\ pc = "fatal"
    /\ exit = "1"

\* C13: with autologin enabled, the conversation callback answers a
\* secret-input or plain-input prompt without reading the terminal and
\* without an error.
C13_AutologinAnswersPrompts ==
    (conf.autologin /\ conv.style \in Prompts) => (~conv.read /\ ~conv.err)

\* The six side effects of defineEnvironment, in the order of the source.
DefineOps == <<"MkdirAll", "Chown", "Setfsuid", "Setfsgid", "Setgroups", "Chdir">>

\* The side effects of defineEnvironment that were carried out, in the order
\* in which they happened.
DefineDone ==
    LET IsDefine(e) == \E i \in DOMAIN DefineOps : DefineOps[i] = e.op
        done == SelectSeq(fx, IsDefine)
    IN  [i \in DOMAIN done |-> done[i].op]

\* C14: a display server or a session process is spawned only after all six
\* side effects of defineEnvironment were carried out, in the order create
\* directory, set ownership, set file-system uid, set file-system gid, set
\* groups, change directory.
C14_DefineEnvironmentAllOrNothing ==
    (\E s \in spawned : s.prog \in {"Xorg", "session"}) => DefineDone = DefineOps

\* The environment defineEnvironment leaves behind.
EnvAtSwitch ==
    [defineEnvironment_Vars(NoEnv, pamEnvs) EXCEPT ![envShell] = usr_shell,
                                                    ![envLang] = lang]

\* wayland() has set the session type, or has gone further.
InWayland == denv = Wayland /\ (pc = "wayland_prepare" \/ cmd.built)

\* C15: on the Wayland path the environment is the one defineEnvironment
\* left except for XDG_SESSION_TYPE = "wayland" (DISPLAY and XAUTHORITY
\* among the unchanged), no display index is allocated, no authority file is
\* created or removed, no display server is spawned, nothing is looked up
\* under the home directory, and the only process spawned by wayland() is the
\* session command under the user's credential.
C15_WaylandFrame ==
    InWayland =>
        /\ env = [EnvAtSwitch EXCEPT ![envXdgSessionType] = "wayland"]
        /\ freeDisplay = -1
        /\ xauth = "absent"
        /\ proc["xorg"] = "none"
        /\ spawned \subseteq {[prog |-> "getent", cred |-> OwnCred],
                              [prog |-> "session", cred |-> UserCred]}
        /\ proc["session"] # "none"
              => [prog |-> "session", cred |-> UserCred] \in spawned
        /\ \A i \in DOMAIN fx :
              fx[i].op = "loadUserDesktop" \/ \E j \in DOMAIN DefineOps : DefineOps[j] = fx[i].op

\* The Wayland session runs with the DISPLAY the backend supplied.
C15_Witness ==
    /\ denv = Wayland
    /\ proc["session"] = "running"
    /\ env[envXdgSessionType] = "wayland"
    /\ env[envDisplay] = "pam"
    /\ [prog |-> "session", cred |-> UserCred] \in spawned

\* C16: the session command and xauth are spawned under the user's
\* credential and only after Setfsuid, Setfsgid and Setgroups were done; the
\* only programs spawned under the orchestrator's own credential are getent,
\* mcookie and Xorg.
C16_UserCredentialAfterTransition ==
    /\ \A s \in spawned :
          /\ s.prog \in {"session", "xauth"} => s.cred = UserCred
          /\ s.cred = OwnCred => s.prog \in {"getent", "mcookie", "Xorg"}
    /\ (\E s \in spawned : s.prog \in {"session", "xauth"})
          => Transition \subseteq {fx[i].op : i \in DOMAIN fx}

\* An X11 login that spawned all five programs.
C16_Witness ==
    /\ {s.prog : s \in spawned} = {"getent", "mcookie", "xauth", "Xorg", "session"}
    /\ [prog |-> "xauth", cred |-> UserCred] \in spawned
    /\ [prog |-> "session", cred |-> UserCred] \in spawned
    /\ proc["session"] = "running"

\* C19: the readiness poll misses the socket marker at most MaxPolls times,
\* an iteration that misses it counts one up, no iteration follows a probe
\* that found it, the poll can always take its next step, and it is left only
\* towards the spawn of the session process, found or not, with the program
\* still running.
C19_PollEndsAndProceeds ==
    /\ [](polls \in 0 .. MaxPolls)
    /\ []((pc = "poll" /\ Running) => ENABLED xorg_Poll)
    /\ [][/\ polls' # polls => (pc = "poll" /\ ~xsock /\ polls' = polls + 1 /\ pc' = "poll")
          /\ (pc = "poll" /\ pc' # "poll")
                => /\ xsock \/ polls = MaxPolls
                   /\ pc' = "xorg_prepare"
                   /\ exit' = exit]_vars

\* The poll ran out without finding the marker and the session was spawned.
C19_Witness ==
    /\ polls = MaxPolls
    /\ ~xsock
    /\ proc["session"] = "running"

C12_SignalDuringSpawnStopsServer ==
    /\ []((denv = Xorg /\ proc["session"] # "none") => "xorg" \in Registered)
    /\ [][(denv = Xorg /\ pc = "xinit_Start" /\ ~sigSeen /\ sigSeen')
             => (hpc' = "Interrupt" /\ hcmds[hi'] = "xorg")]_vars

----------------------------------------------------------------------------
(* The program with both goroutines scheduled: a goroutine that can take   *)
(* its next step eventually takes it. Nothing is assumed of the child      *)
(* processes or of the signals. The configuration is the one of res/conf.  *)

FgNext ==
    \/ Prologue
    \/ login_Switch
    \/ wayland_Setenv
    \/ wayland_Register
    \/ wayland_Start
    \/ wayland_Wait
    \/ xorg_Setenv
    \/ xorg_Create
    \/ xorg_mcookie
    \/ xorg_xauth
    \/ xorg_Start
    \/ xorg_Poll
    \/ xorg_Register
    \/ xorg_xinitStart
    \/ xorg_FailedSignal
    \/ xorg_FailedWait
    \/ xorg_xinitWait
    \/ xorg_Signal
    \/ xorg_Wait
    \/ xorg_Remove
    \/ login_CloseSession
    \/ main_Return

HandlerNext ==
    \/ handleInterrupt_Receive
    \/ handleInterrupt_Interrupt
    \/ handleInterrupt_Wait
    \/ handleInterrupt_Exit

\* The configuration of res/conf as it stands.
InitLive == InitFrom(PamEnvsHere, {0}, ConfHere, DeskHere, TRUE)

SpecLive ==
    InitLive /\ [][Next]_vars /\ WF_vars(FgNext) /\ WF_vars(HandlerNext)

\* C11: a Signal or a Wait on a process that has already exited, by the
\* teardown of xorg() or by handleInterrupt, changes nothing but the caller's
\* position: it does not end the program, it can always be taken, and with
\* the display server exited the teardown, and with every registered process
\* exited the handler's loop, lead to the end of the program.
C11_TeardownOnExitedIsNoOp ==
    /\ [][/\ (pc \in {"xorg_Signal", "xorg_Wait"} /\ pc' # pc /\ proc["xorg"] = "exited")
                => /\ exit' = exit
                   /\ sigint' = sigint
                   /\ proc' = proc
                   /\ pc' = IF pc = "xorg_Signal" THEN "xorg_Wait" ELSE "xorg_Remove"
          /\ (hpc \in {"Interrupt", "Wait"} /\ proc[hcmds[hi]] = "exited"
                 /\ (hpc' # hpc \/ hi' # hi \/ exit' = "2"))
                => /\ exit' = exit
                   /\ sigint' = sigint
                   /\ proc' = proc
                   /\ hpc' # hpc]_vars
    /\ []((Running /\ pc \in {"xorg_Signal", "xorg_Wait"} /\ proc["xorg"] = "exited")
             => ENABLED (xorg_Signal \/ xorg_Wait))
    /\ []((Running /\ hpc \in {"Interrupt", "Wait"} /\ proc[hcmds[hi]] = "exited")
             => ENABLED (handleInterrupt_Interrupt \/ handleInterrupt_Wait))
    /\ (\/ pc \in {"xorg_Signal", "xorg_Wait"} /\ proc["xorg"] = "exited"
        \/ hpc \in {"Interrupt", "Wait"} /\ \A c \in Registered : proc[c] = "exited")
          ~> Ended

\* Both flows have signalled the display server and waited for it, at least
\* one of them after it had exited, and the teardown has gone on.
C11_Witness ==
    /\ pc = "xorg_Remove"
    /\ "xorg" \in fgWaited
    /\ "xorg" \in hSignalled
    /\ "xorg" \in hWaited
    /\ proc["xorg"] = "exited"
    /\ Running

\* The two wrappers prepareGuiCommand may put before a command.
ScriptPrefix == <<usr_homedir, "/", XinitrcStr, Sp>>
DbusPrefix == <<DbusLaunchStr, Sp>>

\* C17: the command string prepareGuiCommand assembled is the path alone
\* when there is no direct-exec string; else the startup script followed by
\* the direct-exec string when the session is X11, xinitrc launching is on,
\* the string has no ".xinitrc" and the script exists; else dbus-launch
\* followed by the direct-exec string when the D-Bus option is on and the
\* string has no "dbus-launch"; else the direct-exec string alone.
C17_AtMostOneWrapper ==
    cmd.built =>
        cmd.str =
            IF desk.exec = <<>> THEN desk.path
            ELSE IF /\ denv = Xorg
                    /\ conf.xinitrcLaunch
                    /\ ~Contains(desk.exec, XinitrcStr)
                    /\ xinitrc
                 THEN ScriptPrefix \o desk.exec
            ELSE IF conf.dbusLaunch /\ ~Contains(desk.exec, DbusLaunchStr)
                 THEN DbusPrefix \o desk.exec
            ELSE desk.exec

\* The startup script was prepended to a command for which dbus-launch was
\* enabled as well.
C17_Witness ==
    /\ cmd.built
    /\ conf.dbusLaunch
    /\ desk.exec = <<"wm", Sp>>
    /\ cmd.str = ScriptPrefix \o desk.exec

\* The pieces of the assembled command string, as strings.Split gives them.
Tokens == Split(cmd.str)

\* C18: the command prepareGuiCommand built has the first piece of the
\* command string as its executable, and the arguments passed to it (Args
\* after the program name in Args[0]) are the remaining pieces in order.
C18_ArgumentsAreRemainingTokens ==
    cmd.built =>
        /\ cmd.name = Tokens[1]
        /\ cmd.args[1] = Tokens[1]
        /\ SubSeq(cmd.args, 2, Len(cmd.args)) = SubSeq(Tokens, 2, Len(Tokens))

====
